---------------------------- MODULE Spec2Model ----------------------------
(***************************************************************************)
(* printbot: a chat-driven print relay (src/bot).                          *)
(*                                                                         *)
(* The model follows src/bot/handlers.py (the four entry points            *)
(* handle_doc, handle_photo, status, start and the PrintJob methods they   *)
(* call) and src/bot/helpers.py (prepare_for_printing, _convert_to_pdf,    *)
(* print_file, get_printing_queue, run_cmd).                               *)
(*                                                                         *)
(* Conventions                                                             *)
(*  - a Python str is a sequence of one-character strings;                 *)
(*  - an Optional value is a sequence of length 0 (None) or 1 (the value); *)
(*  - a Python value whose type matters (bot_data["allowed_users"],        *)
(*    PrintJob.page_count) is a record [t, n, items]: t the type name,     *)
(*    n the integer (int), the length (str, tuple), items the elements     *)
(*    (tuple);                                                             *)
(*  - a notification is the key of the MESSAGES table that was sent;       *)
(*  - sending a message (reply_text) is taken to succeed: the claims are   *)
(*    stated in terms of the messages the user is sent;                    *)
(*  - the outcome of everything outside the process (the Telegram file     *)
(*    download, soffice, lp, lpstat, os.remove, another process removing   *)
(*    a file under /tmp) is a nondeterministic choice.                     *)
(***************************************************************************)
EXTENDS Integers, Sequences, FiniteSets, TLC

(***************************************************************************)
(* Bounds of the model.                                                    *)
(***************************************************************************)
\* PrintJob objects alive at a time (slots of the dispatcher).
NJobs == 2
\* Updates the transport delivers in one behaviour.
MaxUpdates == 2
\* Files another process removes from /tmp in one behaviour.
MaxExternalRemovals == 1

Jobs == 1..NJobs

(***************************************************************************)
(* Python values.                                                          *)
(***************************************************************************)
PyNone == [t |-> "NoneType", n |-> 0, items |-> <<>>]

PyInt(k) == [t |-> "int", n |-> k, items |-> <<>>]

\* A str of length len; only its length is read where a typed value is used.
PyStr(len) == [t |-> "str", n |-> len, items |-> <<>>]

PyTuple(s) == [t |-> "tuple", n |-> Len(s), items |-> s]

\* bool(v): None, 0, "" and () are falsy.
Truthy(v) == v.t # "NoneType" /\ v.n # 0

\* isinstance(v, collections.abc.Iterable)
IsIterable(v) == v.t \in {"str", "tuple"}

PyContainsFirstOnly(x, v) ==
    IF v.t = "str" THEN "TypeError"
    ELSE IF Len(v.items) > 0 /\ v.items[1] = PyInt(x) THEN "True"
    ELSE "False"

\* `x in v` for an int x: "True", "False", or "TypeError" (int in str).
PyContains(x, v) ==
    IF v.t = "str" THEN "TypeError"
    ELSE IF \E i \in 1..Len(v.items) : v.items[i] = PyInt(x) THEN "True"
    ELSE "False"

None == <<>>

Some(x) == <<x>>

IsNone(o) == Len(o) = 0

Val(o) == o[1]

(***************************************************************************)
(* Paths (os.path).                                                        *)
(***************************************************************************)
TmpDir == <<"/", "t", "m", "p", "/">>

PhotoPrefix == <<"p", "h", "o", "t", "o", "_">>

JpgSuffix == <<".", "j", "p", "g">>

PdfSuffix == <<".", "p", "d", "f">>

\* str.rfind(c), 1-based; 0 when c does not occur.
RFind(s, c) ==
    IF \E i \in 1..Len(s) : s[i] = c
    THEN CHOOSE i \in 1..Len(s) : s[i] = c /\ \A k \in (i + 1)..Len(s) : s[k] # c
    ELSE 0

\* os.path.splitext(p)[0]: the last dot after the last separator splits, unless
\* only dots lie between the separator and it.
SplitextRoot(p) ==
    LET sep == RFind(p, "/")
        dot == RFind(p, ".")
    IN  IF dot > sep /\ \E k \in (sep + 1)..(dot - 1) : p[k] # "."
        THEN SubSeq(p, 1, dot - 1)
        ELSE p

\* f"/tmp/{self.file_name}"
DocInputPath(file_name) == TmpDir \o file_name

\* f"{photo.file_id}.jpg"
PhotoFileName(file_id) == file_id \o JpgSuffix

\* f"/tmp/photo_{self.file_name}"
PhotoInputPath(file_name) == TmpDir \o PhotoPrefix \o file_name

\* os.path.splitext(input_path)[0] + ".pdf"
PdfPath(input_path) == SplitextRoot(input_path) \o PdfSuffix


RECURSIVE RStripSlash(_)
\* str.rstrip("/")
RStripSlash(s) ==
    IF Len(s) > 0 /\ s[Len(s)] = "/" THEN RStripSlash(SubSeq(s, 1, Len(s) - 1)) ELSE s

\* os.path.dirname(p)
Dirname(p) ==
    LET head == SubSeq(p, 1, RFind(p, "/"))
    IN  IF Len(head) > 0 /\ \E k \in 1..Len(head) : head[k] # "/"
        THEN RStripSlash(head)
        ELSE head

(***************************************************************************)
(* The file system under /tmp: a function from the paths that exist to the *)
(* binary signature of the content (what filetype.guess reads).            *)
(***************************************************************************)
\* filetype types prepare_for_printing prints as they are.
PrintableSigs == {"pdf", "bmp", "gif", "ico", "jpeg", "png", "tiff"}

\* filetype.is_document: the office document types.
DocumentSigs == {"doc", "docx", "odt", "xls", "xlsx", "ods", "ppt", "pptx", "odp"}

\* os.path.isfile / os.path.exists
IsFile(files, p) == p \in DOMAIN files

WriteFile(files, p, sig) ==
    [q \in (DOMAIN files) \cup {p} |-> IF q = p THEN sig ELSE files[q]]

RemoveFile(files, p) == [q \in (DOMAIN files) \ {p} |-> files[q]]

(***************************************************************************)
(* Authorization gate: PrintJob.is_user_valid.                             *)
(*   ret: "True", "False", or the exception that leaves the method;        *)
(*   reply: whether msgs["no_auth"] was sent.                              *)
(***************************************************************************)
is_user_valid_inverted(user_id, allowed) ==
    IF ~Truthy(allowed) THEN [ret |-> "True", reply |-> FALSE]
    ELSE IF ~IsIterable(allowed) THEN [ret |-> "False", reply |-> TRUE]
    ELSE IF PyContains(user_id, allowed) = "TypeError"
         THEN [ret |-> "TypeError", reply |-> FALSE]
    ELSE IF PyContains(user_id, allowed) = "True"
         THEN [ret |-> "False", reply |-> TRUE]
    ELSE [ret |-> "True", reply |-> FALSE]

is_user_valid(user_id, allowed) ==
    IF ~Truthy(allowed) THEN [ret |-> "True", reply |-> FALSE]
    ELSE IF ~IsIterable(allowed) THEN [ret |-> "False", reply |-> TRUE]
    ELSE IF PyContains(user_id, allowed) = "TypeError"
         THEN [ret |-> "TypeError", reply |-> FALSE]
    ELSE IF PyContains(user_id, allowed) = "False"
         THEN [ret |-> "False", reply |-> TRUE]
    ELSE [ret |-> "True", reply |-> FALSE]

(***************************************************************************)
(* Command lines.                                                          *)
(***************************************************************************)
Soffice == <<"s", "o", "f", "f", "i", "c", "e">>

Lp == <<"l", "p">>

Lpstat == <<"l", "p", "s", "t", "a", "t">>

\* _convert_to_pdf: cmd
ConvertCmd(input_path) ==
    << Soffice,
       <<"-", "-", "h", "e", "a", "d", "l", "e", "s", "s">>,
       <<"-", "-", "c", "o", "n", "v", "e", "r", "t", "-", "t", "o">>,
       <<"p", "d", "f">>,
       <<"-", "-", "o", "u", "t", "d", "i", "r">>,
       Dirname(input_path),
       input_path >>

PrintCmdPathFirst(file_path, printer_name) ==
    IF ~IsNone(printer_name) /\ Len(Val(printer_name)) > 0
    THEN <<Lp, file_path, <<"-", "d">>, Val(printer_name)>>
    ELSE <<Lp, file_path>>

\* print_file: cmd. printer_name is an Optional str; "" and None are falsy.
PrintCmd(file_path, printer_name) ==
    IF ~IsNone(printer_name) /\ Len(Val(printer_name)) > 0
    THEN <<Lp, <<"-", "d">>, Val(printer_name), file_path>>
    ELSE <<Lp, file_path>>

\* get_printing_queue: cmd
QueueCmd == <<Lpstat, <<"-", "o">>>>

(***************************************************************************)
(* _convert_to_pdf(input_path) on the file system `files`, the converter   *)
(* behaving as `outcome`:                                                  *)
(*   "no_tool"   shutil.which finds neither soffice nor libreoffice;       *)
(*   "cmd_error" run_cmd raises CommandError (OSError or non-zero exit);   *)
(*   "exit0_output"    the tool exits 0 and wrote the .pdf;                *)
(*   "exit0_no_output" the tool exits 0 and wrote nothing.                 *)
(* Result: exc (the exception, "None" on return), ret (the returned path), *)
(* cmds (the commands run), files (the file system afterwards).            *)
(***************************************************************************)
ConvOutcomes == {"no_tool", "cmd_error", "exit0_output", "exit0_no_output"}

convert_to_pdf_trusts_exit_code(files, input_path, outcome) ==
    LET pdf_path == PdfPath(input_path)
        after == IF outcome = "exit0_output"
                 THEN WriteFile(files, pdf_path, "pdf")
                 ELSE files
    IN  IF outcome = "no_tool"
        THEN [exc |-> "FileConversionError", ret |-> None, cmds |-> <<>>,
              files |-> files]
        ELSE IF outcome = "cmd_error"
        THEN [exc |-> "FileConversionError", ret |-> None,
              cmds |-> <<ConvertCmd(input_path)>>, files |-> files]
        ELSE [exc |-> "None", ret |-> Some(pdf_path),
              cmds |-> <<ConvertCmd(input_path)>>, files |-> after]

convert_to_pdf(files, input_path, outcome) ==
    LET pdf_path == PdfPath(input_path)
        after == IF outcome = "exit0_output"
                 THEN WriteFile(files, pdf_path, "pdf")
                 ELSE files
    IN  IF outcome = "no_tool"
        THEN [exc |-> "FileConversionError", ret |-> None, cmds |-> <<>>,
              files |-> files]
        ELSE IF outcome = "cmd_error"
        THEN [exc |-> "FileConversionError", ret |-> None,
              cmds |-> <<ConvertCmd(input_path)>>, files |-> files]
        ELSE IF ~IsFile(after, pdf_path)
        THEN [exc |-> "FileConversionError", ret |-> None,
              cmds |-> <<ConvertCmd(input_path)>>, files |-> after]
        ELSE [exc |-> "None", ret |-> Some(pdf_path),
              cmds |-> <<ConvertCmd(input_path)>>, files |-> after]

(***************************************************************************)
(* prepare_for_printing(file_path).  Besides the fields of convert_to_pdf: *)
(*   cls   what the type check decided: "FileNotFound", "PrintableAsIs",   *)
(*         "ConvertibleDocument", "Unsupported";                           *)
(*   conv  "none" (no conversion), "ok", "failed".                         *)
(***************************************************************************)
prepare_for_printing_by_extension(files, file_path, outcome) ==
    IF ~IsFile(files, file_path)
    THEN [exc |-> "FileNotFoundError", ret |-> None, cmds |-> <<>>,
          files |-> files, cls |-> "FileNotFound", conv |-> "none"]
    ELSE IF SplitextRoot(file_path) # file_path
    THEN LET c == convert_to_pdf(files, file_path, outcome)
         IN  IF c.exc = "None"
             THEN [exc |-> "None", ret |-> c.ret, cmds |-> c.cmds,
                   files |-> c.files, cls |-> "ConvertibleDocument",
                   conv |-> "ok"]
             ELSE [exc |-> "UnprintableTypeError", ret |-> None,
                   cmds |-> c.cmds, files |-> c.files,
                   cls |-> "ConvertibleDocument", conv |-> "failed"]
    ELSE [exc |-> "None", ret |-> Some(file_path), cmds |-> <<>>,
          files |-> files, cls |-> "PrintableAsIs", conv |-> "none"]

prepare_for_printing(files, file_path, outcome) ==
    IF ~IsFile(files, file_path)
    THEN [exc |-> "FileNotFoundError", ret |-> None, cmds |-> <<>>,
          files |-> files, cls |-> "FileNotFound", conv |-> "none"]
    ELSE IF files[file_path] \in PrintableSigs
    THEN [exc |-> "None", ret |-> Some(file_path), cmds |-> <<>>,
          files |-> files, cls |-> "PrintableAsIs", conv |-> "none"]
    ELSE IF files[file_path] \in DocumentSigs
    THEN LET c == convert_to_pdf(files, file_path, outcome)
         IN  IF c.exc = "None"
             THEN [exc |-> "None", ret |-> c.ret, cmds |-> c.cmds,
                   files |-> c.files, cls |-> "ConvertibleDocument",
                   conv |-> "ok"]
             ELSE [exc |-> "UnprintableTypeError", ret |-> None,
                   cmds |-> c.cmds, files |-> c.files,
                   cls |-> "ConvertibleDocument", conv |-> "failed"]
    ELSE [exc |-> "UnprintableTypeError", ret |-> None, cmds |-> <<>>,
          files |-> files, cls |-> "Unsupported", conv |-> "none"]

(***************************************************************************)
(* Settings: PrintContext._validate_int("PAGE_CONFIRM_LIMIT", 20).         *)
(* The environment variable is an Optional str.                            *)
(***************************************************************************)
Digits == <<"0", "1", "2", "3", "4", "5", "6", "7", "8", "9">>

IsDigit(c) == \E d \in 1..10 : Digits[d] = c

DigitVal(c) == (CHOOSE d \in 1..10 : Digits[d] = c) - 1

RECURSIVE ParseDigits(_)
ParseDigits(s) ==
    IF Len(s) = 0 THEN 0
    ELSE 10 * ParseDigits(SubSeq(s, 1, Len(s) - 1)) + DigitVal(s[Len(s)])

\* PrintContext.__init__: the default of PAGE_CONFIRM_LIMIT
DefaultPageConfirmLimit == 20

\* _validate_int: unset or empty gives the default, as does a value int() rejects.
validate_int(val, default) ==
    IF IsNone(val) \/ Len(Val(val)) = 0 THEN default
    ELSE IF \A i \in 1..Len(Val(val)) : IsDigit(Val(val)[i])
         THEN ParseDigits(Val(val))
    ELSE default

(***************************************************************************)
(* Settings() on an environment `env`, a record of the variables it reads  *)
(* (each unset, None, or a str).                                           *)
(***************************************************************************)
\* str.split(",")
RECURSIVE SplitComma(_)
SplitComma(s) ==
    IF \A i \in 1..Len(s) : s[i] # "," THEN <<s>>
    ELSE LET k == CHOOSE i \in 1..Len(s) :
                      s[i] = "," /\ \A m \in 1..(i - 1) : s[m] # ","
         IN  <<SubSeq(s, 1, k - 1)>> \o SplitComma(SubSeq(s, k + 1, Len(s)))

\* str.strip()
RECURSIVE Strip(_)
Strip(s) ==
    IF Len(s) > 0 /\ s[1] = " " THEN Strip(Tail(s))
    ELSE IF Len(s) > 0 /\ s[Len(s)] = " " THEN Strip(SubSeq(s, 1, Len(s) - 1))
    ELSE s

NonEmpty(s) == Len(s) > 0

\* PrintContext._parse_comma_separated
parse_comma_separated(val) ==
    IF IsNone(val) \/ Len(Val(val)) = 0 THEN None
    ELSE LET split == SplitComma(Val(val))
             parsed == SelectSeq([i \in 1..Len(split) |-> Strip(split[i])],
                                 NonEmpty)
         IN  IF Len(parsed) = 0 THEN None ELSE Some(parsed)

\* int(s) of a stripped str: an optional sign and decimal digits.
Unsigned(s) == IF Len(s) > 0 /\ s[1] \in {"+", "-"} THEN Tail(s) ELSE s

IsIntLiteral(s) ==
    Len(Unsigned(s)) > 0 /\ \A i \in 1..Len(Unsigned(s)) : IsDigit(Unsigned(s)[i])

ToInt(s) ==
    IF s[1] = "-" THEN 0 - ParseDigits(Unsigned(s)) ELSE ParseDigits(Unsigned(s))

NotIntLiteral(s) == ~IsIntLiteral(s)

validate_tg_users_skips_wrong_ids(val) ==
    LET user_ids == parse_comma_separated(val)
        correct == IF IsNone(user_ids) THEN <<>>
                   ELSE SelectSeq(Val(user_ids), IsIntLiteral)
    IN  IF IsNone(user_ids) THEN [exc |-> "None", ret |-> PyNone]
        ELSE [exc |-> "None",
              ret |-> PyTuple([i \in 1..Len(correct) |-> PyInt(ToInt(correct[i]))])]

\* PrintContext._validate_tg_users
validate_tg_users(val) ==
    LET user_ids == parse_comma_separated(val)
        wrong_ids == IF IsNone(user_ids) THEN <<>>
                     ELSE SelectSeq(Val(user_ids), NotIntLiteral)
    IN  IF IsNone(user_ids) THEN [exc |-> "None", ret |-> PyNone]
        ELSE IF Len(wrong_ids) > 0
        THEN [exc |-> "IncorrectUserIDError", ret |-> PyNone]
        ELSE [exc |-> "None",
              ret |-> PyTuple([i \in 1..Len(Val(user_ids)) |->
                                  PyInt(ToInt(Val(user_ids)[i]))])]

\* str.lower() on the letters the environments here use
Lower(s) ==
    [i \in 1..Len(s) |-> IF s[i] = "Y" THEN "y"
                         ELSE IF s[i] = "N" THEN "n" ELSE s[i]]

\* Settings._validate_bool
validate_bool(val) ==
    /\ ~IsNone(val)
    /\ Len(Val(val)) > 0
    /\ Lower(Val(val)) \in { <<"1">>, <<"t">>, <<"t", "r", "u", "e">>, <<"y">>,
                             <<"y", "e", "s">> }

\* Settings._validate_required_str
validate_required_str(val) ==
    IF IsNone(val) \/ Len(Val(val)) = 0
    THEN [exc |-> "MissingEnvVarError", ret |-> None]
    ELSE [exc |-> "None", ret |-> val]

\* os.getenv("DEBUG_PRINTER_NAME", "PDF") with the variable unset
DebugPrinterName == Some(<<"P", "D", "F">>)

\* Settings.__init__ with PrintContext.__init__: exc is the SettingsError
\* raised ("None": none), ret the Settings object.
Settings(env) ==
    LET debug == validate_bool(env.DEBUG)
        tg_token == validate_required_str(env.TELEGRAM_TOKEN)
        users == validate_tg_users(env.ALLOWED_USERS)
        print_context ==
            [ printer_name |-> IF ~debug THEN env.PRINTER_NAME
                               ELSE DebugPrinterName,
              allowed_users |-> users.ret,
              page_confirm_limit |->
                  validate_int(env.PAGE_CONFIRM_LIMIT, DefaultPageConfirmLimit) ]
    IN  IF tg_token.exc # "None" THEN [exc |-> tg_token.exc, ret |-> None]
        ELSE IF users.exc # "None" THEN [exc |-> users.exc, ret |-> None]
        ELSE [exc |-> "None",
              ret |-> Some([ debug |-> debug,
                             debug_printer_name |-> DebugPrinterName,
                             tg_token |-> Val(tg_token.ret),
                             print_context |-> print_context ])]

(***************************************************************************)
(* handle_doc: the page-count gate.  The limit is the literal of the       *)
(* source, not the setting.                                                *)
(***************************************************************************)
HardCodedPageLimit == 20

\* job.page_count and job.page_count >= 20: "True", "False" or "TypeError"
\* (a str compared with an int).
needs_confirmation(page_count) ==
    IF ~Truthy(page_count) THEN "False"
    ELSE IF page_count.t # "int" THEN "TypeError"
    ELSE IF page_count.n >= HardCodedPageLimit THEN "True"
    ELSE "False"

(***************************************************************************)
(* The notifications.  MESSAGES gives, for each key of the message table,  *)
(* the replacement fields of its template: the file name where a file is   *)
(* announced, the page count in the confirmation request, the listing in   *)
(* the queue report, and nothing that comes from an exception.             *)
(***************************************************************************)
MESSAGES ==
    [ no_auth |-> {}, downloading_file |-> {"filename"}, preparing_file |-> {},
      unprintable |-> {}, failed |-> {},
      page_count_warning |-> {"filename", "pages"},
      printing_failed |-> {}, sent_to_printer |-> {}, start |-> {},
      print_queue |-> {"queue"}, empty_queue |-> {}, status_failed |-> {} ]

NoArgs == [n \in {} |-> <<>>]

\* reply_text(msgs[key]): the template as it is.
Plain(key) == [key |-> key, shown |-> NoArgs]

\* reply_text(msgs[key].format(**kwargs)): each replacement field of the
\* template takes its keyword argument; other keyword arguments are unused.
Format(key, kwargs) ==
    [key |-> key,
     shown |-> [n \in MESSAGES[key] \cap DOMAIN kwargs |-> kwargs[n]]]

\* f"... {e}": the exception's text is part of the message.
Interpolate(key, text) == [key |-> key, shown |-> [n \in {"err"} |-> text]]

\* str(n) for n >= 0
RECURSIVE IntToStr(_)
IntToStr(n) ==
    IF n < 10 THEN <<Digits[n + 1]>>
    ELSE Append(IntToStr(n \div 10), Digits[(n % 10) + 1])

\* str(e) of prepare_for_printing's FileNotFoundError
FileNotFoundText(file_path) == <<"File not found: ">> \o file_path

(***************************************************************************)
(* State.                                                                  *)
(***************************************************************************)
VARIABLES
    bot_data,            \* [allowed_users, printer_name], set by build_app
    page_confirm_limit,  \* PrintContext.page_confirm_limit
    asserts_on,          \* whether assert statements run (python without -O)
    concurrent_updates,  \* Application: whether handlers of two updates interleave
    proc,                \* main(): where the process is, and what it read
    fs,                  \* the files under /tmp: path -> signature
    job,                 \* the PrintJob of each slot
    updates,             \* updates delivered so far
    ext_removed          \* files removed by another process so far

vars == << bot_data, page_confirm_limit, asserts_on, concurrent_updates, proc,
           fs, job, updates, ext_removed >>

config == << bot_data, page_confirm_limit, asserts_on, concurrent_updates,
            proc >>

(***************************************************************************)
(* PrintJob.__init__, with the update it was built for:                    *)
(*   kind "doc", "photo", "status" or "start"; user the effective user's   *)
(*   id; name and sig the document's declared name and its content's       *)
(*   signature; file_id the photo's transport identifier.                  *)
(* Observation fields: msgs the keys of the notifications sent and texts   *)
(* what each showed, cmds the commands run,                                *)
(* rm the paths os.remove was called on, calls the PrintJob methods        *)
(* entered, auth what is_user_valid returned (or raised), err the          *)
(* exception that left the handler ("None": none),                         *)
(* downloaded whether download_to_drive wrote the file, cls and conv what  *)
(* prepare_for_printing decided, tool how the converter behaved when       *)
(* _convert_to_pdf was called, lp how the submit command ended, queue how  *)
(* the queue command ended.                                                *)
(***************************************************************************)
BlankJob ==
    [ pc |-> "idle", kind |-> "none", user |-> 0, name |-> <<>>,
      sig |-> "none", file_id |-> <<>>,
      file_name |-> None, input_path |-> None, printable_path |-> None,
      page_count |-> PyNone,
      msgs |-> <<>>, texts |-> <<>>, cmds |-> <<>>, rm |-> <<>>,
      calls |-> <<>>,
      err |-> "None", downloaded |-> FALSE, cls |-> "none", conv |-> "none",
      tool |-> "none", lp |-> "none", queue |-> "none", auth |-> "none" ]

Users == {1, 2}

\* doc.file_name is what the sender's client declared: a plain name, and a
\* name with a parent-directory segment.
DocNames == { <<"a", ".", "d">>, <<".", ".", "/", "x">> }

InboundSigs == {"pdf", "docx", "unknown"}

PhotoIds == { <<"X">> }

Finished(j) == job[j].pc \in {"idle", "done"}

\* run_cmd is subprocess.run, called from the coroutine on the event loop's
\* thread: until the command returns no coroutine runs and no update is
\* taken.  A job whose command never returns is at "hung".
LoopBlocked == \E k \in Jobs : job[k].pc = "hung"

\* A slot takes the next update when it is free and, unless the application
\* runs updates concurrently, no other handler is running.
CanDispatch(j) ==
    /\ Finished(j)
    /\ concurrent_updates \/ \A k \in Jobs : Finished(k)

NewJob(kind, user, name, sig, file_id) ==
    [BlankJob EXCEPT !.pc = "auth", !.kind = kind, !.user = user,
                     !.name = name, !.sig = sig, !.file_id = file_id]

\* The slots after slot j takes a new PrintJob: the finished jobs are gone.
Dispatch(j, new) ==
    [k \in Jobs |-> IF k = j THEN new
                    ELSE IF Finished(k) THEN BlankJob ELSE job[k]]

Receive(j) ==
    /\ ~LoopBlocked
    /\ updates < MaxUpdates
    /\ CanDispatch(j)
    /\ \E user \in Users :
          \/ \E name \in DocNames, sig \in InboundSigs :
                job' = Dispatch(j, NewJob("doc", user, name, sig, <<>>))
          \/ \E id \in PhotoIds :
                job' = Dispatch(j, NewJob("photo", user, <<>>, "jpeg", id))
          \/ job' = Dispatch(j, NewJob("status", user, <<>>, "none", <<>>))
          \/ job' = Dispatch(j, NewJob("start", user, <<>>, "none", <<>>))
    /\ updates' = updates + 1
    /\ UNCHANGED << config, fs, ext_removed >>

\* The handler's step after a successful is_user_valid.
FirstStep(kind) ==
    CASE kind = "doc" -> "download"
      [] kind = "photo" -> "photo"
      [] kind = "status" -> "status"
      [] OTHER -> "start"

\* handle_doc, handle_photo, status, start: `if not await job.is_user_valid()`
Authorize(j) ==
    /\ ~LoopBlocked
    /\ job[j].pc = "auth"
    /\ LET r == is_user_valid(job[j].user, bot_data.allowed_users)
           called == Append(job[j].calls, "is_user_valid")
           replied == IF r.reply THEN Append(job[j].msgs, "no_auth")
                      ELSE job[j].msgs
           shown == IF r.reply THEN Append(job[j].texts, Plain("no_auth"))
                    ELSE job[j].texts
           j0 == [job[j] EXCEPT !.calls = called, !.msgs = replied,
                                !.texts = shown, !.auth = r.ret]
       IN  job' = [job EXCEPT ![j] =
              IF r.ret = "True" THEN [j0 EXCEPT !.pc = FirstStep(job[j].kind)]
              ELSE IF r.ret = "False" THEN [j0 EXCEPT !.pc = "done"]
              ELSE [j0 EXCEPT !.pc = "done", !.err = r.ret]]
    /\ UNCHANGED << config, fs, updates, ext_removed >>

(***************************************************************************)
(* PrintJob.process_doc, first half (lines 78-100): get_file, the          *)
(* "downloading_file" notification, download_to_drive.  `outcome` is what  *)
(* the transport does: "get_file_error", "download_error" (nothing is      *)
(* written), "ok".  Result: [job, files].                                  *)
(***************************************************************************)
DownloadOutcomes == {"get_file_error", "download_error", "ok"}

process_doc_download(jb, files, outcome) ==
    LET path == DocInputPath(jb.name)
        j0 == [jb EXCEPT !.calls = Append(@, "process_doc"),
                         !.file_name = Some(jb.name)]
        j1 == [j0 EXCEPT !.input_path = Some(path),
                         !.msgs = Append(@, "downloading_file"),
                         !.texts = Append(@, Format("downloading_file",
                                                    [filename |-> jb.name]))]
    IN  IF outcome = "get_file_error"
        THEN [job |-> [j0 EXCEPT !.pc = "done", !.err = "TelegramError"],
              files |-> files]
        ELSE IF outcome = "download_error"
        THEN [job |-> [j1 EXCEPT !.pc = "done", !.err = "TelegramError"],
              files |-> files]
        ELSE [job |-> [j1 EXCEPT !.pc = "prepare", !.downloaded = TRUE],
              files |-> WriteFile(files, path, jb.sig)]

\* `a, b = s` for a str s: two targets need exactly two characters.
unpack_pair(s) ==
    IF Len(s) = 2
    THEN [exc |-> "None", first |-> Some(<<s[1]>>), second |-> PyStr(1)]
    ELSE [exc |-> "ValueError", first |-> None, second |-> PyNone]

(***************************************************************************)
(* PrintJob.process_doc, second half (lines 102-124): the "preparing_file" *)
(* notification, prepare_for_printing, whose str result is unpacked into   *)
(* (printable_path, page_count), and the two except clauses.               *)
(***************************************************************************)
process_doc_prepare_fstring(jb, files, outcome) ==
    LET r == prepare_for_printing(files, Val(jb.input_path), outcome)
        j0 == [jb EXCEPT !.msgs = Append(@, "preparing_file"),
                         !.texts = Append(@, Plain("preparing_file")),
                         !.cmds = @ \o r.cmds,
                         !.cls = r.cls, !.conv = r.conv,
                         !.tool = IF r.cls = "ConvertibleDocument"
                                  THEN outcome ELSE "none"]
        u == unpack_pair(Val(r.ret))
    IN  IF r.exc = "UnprintableTypeError"
        THEN [job |-> [j0 EXCEPT !.msgs = Append(@, "unprintable"),
                                 !.texts = Append(@, Plain("unprintable")),
                                 !.pc = "gate"],
              files |-> r.files]
        ELSE IF r.exc = "FileNotFoundError"
        THEN [job |-> [j0 EXCEPT !.msgs = Append(@, "failed"),
                                 !.texts = Append(@, Interpolate("failed",
                                          FileNotFoundText(Val(jb.input_path)))),
                                 !.pc = "gate"],
              files |-> r.files]
        ELSE IF u.exc = "None"
        THEN [job |-> [j0 EXCEPT !.printable_path = u.first,
                                 !.page_count = u.second, !.pc = "gate"],
              files |-> r.files]
        ELSE [job |-> [j0 EXCEPT !.err = u.exc, !.pc = "done"],
              files |-> r.files]

process_doc_prepare(jb, files, outcome) ==
    LET r == prepare_for_printing(files, Val(jb.input_path), outcome)
        j0 == [jb EXCEPT !.msgs = Append(@, "preparing_file"),
                         !.texts = Append(@, Plain("preparing_file")),
                         !.cmds = @ \o r.cmds,
                         !.cls = r.cls, !.conv = r.conv,
                         !.tool = IF r.cls = "ConvertibleDocument"
                                  THEN outcome ELSE "none"]
        u == unpack_pair(Val(r.ret))
    IN  IF r.exc = "UnprintableTypeError"
        THEN [job |-> [j0 EXCEPT !.msgs = Append(@, "unprintable"),
                                 !.texts = Append(@, Plain("unprintable")),
                                 !.pc = "gate"],
              files |-> r.files]
        ELSE IF r.exc = "FileNotFoundError"
        THEN [job |-> [j0 EXCEPT !.msgs = Append(@, "failed"),
                                 !.texts = Append(@, Format("failed",
                                                            [err |-> FileNotFoundText(
                                                 Val(jb.input_path))])),
                                 !.pc = "gate"],
              files |-> r.files]
        ELSE IF u.exc = "None"
        THEN [job |-> [j0 EXCEPT !.printable_path = u.first,
                                 !.page_count = u.second, !.pc = "gate"],
              files |-> r.files]
        ELSE [job |-> [j0 EXCEPT !.err = u.exc, !.pc = "done"],
              files |-> r.files]

ProcessDocDownload(j) ==
    /\ ~LoopBlocked
    /\ job[j].pc = "download"
    /\ \E outcome \in DownloadOutcomes :
          LET r == process_doc_download(job[j], fs, outcome)
          IN  /\ job' = [job EXCEPT ![j] = r.job]
              /\ fs' = r.files
    /\ UNCHANGED << config, updates, ext_removed >>

ProcessDocPrepare(j) ==
    /\ ~LoopBlocked
    /\ job[j].pc = "prepare"
    /\ \E outcome \in ConvOutcomes :
          LET r == process_doc_prepare(job[j], fs, outcome)
          IN  /\ job' = [job EXCEPT ![j] = r.job]
              /\ fs' = r.files
    /\ UNCHANGED << config, updates, ext_removed >>

(***************************************************************************)
(* handle_doc, lines 251-253: the gate, request_print_confirmation and the *)
(* return that ends the handler.                                           *)
(***************************************************************************)
confirmation_gate_falls_through(jb) ==
    LET d == needs_confirmation(jb.page_count)
    IN  IF d = "True"
        THEN [jb EXCEPT !.calls = Append(@, "request_print_confirmation"),
                        !.msgs = Append(@, "page_count_warning"),
                        !.texts = Append(@, Format("page_count_warning",
                                      [filename |-> Val(jb.file_name),
                                       pages |-> IntToStr(jb.page_count.n)])),
                        !.pc = "send"]
        ELSE IF d = "False" THEN [jb EXCEPT !.pc = "send"]
        ELSE [jb EXCEPT !.err = d, !.pc = "done"]

confirmation_gate(jb) ==
    LET d == needs_confirmation(jb.page_count)
    IN  IF d = "True"
        THEN [jb EXCEPT !.calls = Append(@, "request_print_confirmation"),
                        !.msgs = Append(@, "page_count_warning"),
                        !.texts = Append(@, Format("page_count_warning",
                                      [filename |-> Val(jb.file_name),
                                       pages |-> IntToStr(jb.page_count.n)])),
                        !.pc = "done"]
        ELSE IF d = "False" THEN [jb EXCEPT !.pc = "send"]
        ELSE [jb EXCEPT !.err = d, !.pc = "done"]

ConfirmationGate(j) ==
    /\ ~LoopBlocked
    /\ job[j].pc = "gate"
    /\ job' = [job EXCEPT ![j] = confirmation_gate(@)]
    /\ UNCHANGED << config, fs, updates, ext_removed >>

(***************************************************************************)
(* PrintJob.process_photo: the fields are set before download_to_drive.    *)
(***************************************************************************)
process_photo_through_gate(jb, files, outcome) ==
    LET name == PhotoFileName(jb.file_id)
        path == PhotoInputPath(name)
        j0 == [jb EXCEPT !.calls = Append(@, "process_photo")]
        j1 == [j0 EXCEPT !.file_name = Some(name), !.input_path = Some(path),
                         !.printable_path = Some(path),
                         !.page_count = PyInt(1)]
    IN  IF outcome = "get_file_error"
        THEN [job |-> [j0 EXCEPT !.pc = "done", !.err = "TelegramError"],
              files |-> files]
        ELSE IF outcome = "download_error"
        THEN [job |-> [j1 EXCEPT !.pc = "done", !.err = "TelegramError"],
              files |-> files]
        ELSE [job |-> [j1 EXCEPT !.pc = "gate", !.downloaded = TRUE],
              files |-> WriteFile(files, path, jb.sig)]

process_photo(jb, files, outcome) ==
    LET name == PhotoFileName(jb.file_id)
        path == PhotoInputPath(name)
        j0 == [jb EXCEPT !.calls = Append(@, "process_photo")]
        j1 == [j0 EXCEPT !.file_name = Some(name), !.input_path = Some(path),
                         !.printable_path = Some(path),
                         !.page_count = PyInt(1)]
    IN  IF outcome = "get_file_error"
        THEN [job |-> [j0 EXCEPT !.pc = "done", !.err = "TelegramError"],
              files |-> files]
        ELSE IF outcome = "download_error"
        THEN [job |-> [j1 EXCEPT !.pc = "done", !.err = "TelegramError"],
              files |-> files]
        ELSE [job |-> [j1 EXCEPT !.pc = "send", !.downloaded = TRUE],
              files |-> WriteFile(files, path, jb.sig)]

ProcessPhoto(j) ==
    /\ ~LoopBlocked
    /\ job[j].pc = "photo"
    /\ \E outcome \in DownloadOutcomes :
          LET r == process_photo(job[j], fs, outcome)
          IN  /\ job' = [job EXCEPT ![j] = r.job]
              /\ fs' = r.files
    /\ UNCHANGED << config, updates, ext_removed >>

(***************************************************************************)
(* PrintJob.send_to_printer with print_file and run_cmd.  Without a        *)
(* printable path the assert fails; with asserts compiled out print_file   *)
(* raises TypeError joining the command for its log line, before run_cmd.  *)
(* `outcome`: "ok" (lp exits 0) or "error" (CommandError: lp cannot be     *)
(* run or exits non-zero).  The handler goes on to cleanup.                *)
(***************************************************************************)
SubmitOutcomes == {"ok", "error"}

send_to_printer_prints_input(jb, printer_name, asserts, outcome) ==
    LET j0 == [jb EXCEPT !.calls = Append(@, "send_to_printer")]
        j1 == [j0 EXCEPT !.cmds = Append(@, PrintCmd(Val(jb.input_path),
                                                     printer_name)),
                         !.lp = outcome, !.pc = "cleanup"]
    IN  IF IsNone(jb.input_path)
        THEN [j0 EXCEPT !.pc = "done", !.err = "AssertionError"]
        ELSE IF outcome = "error"
        THEN [j1 EXCEPT !.msgs = Append(@, "printing_failed"),
                        !.texts = Append(@, Plain("printing_failed"))]
        ELSE [j1 EXCEPT !.msgs = Append(@, "sent_to_printer"),
                        !.texts = Append(@, Plain("sent_to_printer"))]

send_to_printer_always_succeeds(jb, printer_name, asserts, outcome) ==
    LET j0 == [jb EXCEPT !.calls = Append(@, "send_to_printer")]
        j1 == [j0 EXCEPT !.cmds = Append(@, PrintCmd(Val(jb.printable_path),
                                                     printer_name)),
                         !.lp = outcome, !.pc = "cleanup"]
    IN  IF IsNone(jb.printable_path)
        THEN [j0 EXCEPT !.pc = "done",
                        !.err = IF asserts THEN "AssertionError" ELSE "TypeError"]
        ELSE [j1 EXCEPT !.msgs = Append(@, "sent_to_printer"),
                        !.texts = Append(@, Plain("sent_to_printer"))]

send_to_printer_reports_missing_path(jb, printer_name, asserts, outcome) ==
    LET j0 == [jb EXCEPT !.calls = Append(@, "send_to_printer")]
        j1 == [j0 EXCEPT !.cmds = Append(@, PrintCmd(Val(jb.printable_path),
                                                     printer_name)),
                         !.lp = outcome, !.pc = "cleanup"]
    IN  IF IsNone(jb.printable_path)
        THEN [j0 EXCEPT !.msgs = Append(@, "printing_failed"),
                        !.texts = Append(@, Plain("printing_failed")),
                        !.pc = "cleanup"]
        ELSE IF outcome = "error"
        THEN [j1 EXCEPT !.msgs = Append(@, "printing_failed"),
                        !.texts = Append(@, Plain("printing_failed"))]
        ELSE [j1 EXCEPT !.msgs = Append(@, "sent_to_printer"),
                        !.texts = Append(@, Plain("sent_to_printer"))]

send_to_printer(jb, printer_name, asserts, outcome) ==
    LET j0 == [jb EXCEPT !.calls = Append(@, "send_to_printer")]
        j1 == [j0 EXCEPT !.cmds = Append(@, PrintCmd(Val(jb.printable_path),
                                                     printer_name)),
                         !.lp = outcome, !.pc = "cleanup"]
    IN  IF IsNone(jb.printable_path)
        THEN [j0 EXCEPT !.pc = "done",
                        !.err = IF asserts THEN "AssertionError" ELSE "TypeError"]
        ELSE IF outcome = "error"
        THEN [j1 EXCEPT !.msgs = Append(@, "printing_failed"),
                        !.texts = Append(@, Plain("printing_failed"))]
        ELSE [j1 EXCEPT !.msgs = Append(@, "sent_to_printer"),
                        !.texts = Append(@, Plain("sent_to_printer"))]

SendToPrinter(j) ==
    /\ ~LoopBlocked
    /\ job[j].pc = "send"
    /\ \E outcome \in SubmitOutcomes :
          job' = [job EXCEPT ![j] =
                     send_to_printer(@, bot_data.printer_name, asserts_on, outcome)]
    /\ UNCHANGED << config, fs, updates, ext_removed >>

(***************************************************************************)
(* PrintJob.cleanup.  rm_in and rm_out say whether os.remove of the input  *)
(* and of the converted file succeeds; a failing os.remove raises, and the *)
(* except clause ends the method.  Result: [job, files].                   *)
(***************************************************************************)
cleanup_unguarded(jb, files, rm_in, rm_out) ==
    LET j0 == [jb EXCEPT !.calls = Append(@, "cleanup"), !.pc = "done"]
        has_in == ~IsNone(jb.input_path)
        j1 == IF has_in THEN [j0 EXCEPT !.rm = Append(@, Val(jb.input_path))]
              ELSE j0
        f1 == IF has_in /\ rm_in THEN RemoveFile(files, Val(jb.input_path))
              ELSE files
        has_out == /\ ~IsNone(jb.printable_path)
                   /\ jb.printable_path # jb.input_path
                   /\ IsFile(f1, Val(jb.printable_path))
        j2 == IF has_out THEN [j1 EXCEPT !.rm = Append(@, Val(jb.printable_path))]
              ELSE j1
        f2 == IF has_out /\ rm_out THEN RemoveFile(f1, Val(jb.printable_path))
              ELSE f1
    IN  IF has_in /\ ~IsFile(files, Val(jb.input_path))
        THEN [job |-> [j1 EXCEPT !.err = "FileNotFoundError"], files |-> files]
        ELSE IF has_in /\ ~rm_in
        THEN [job |-> j1, files |-> f1]
        ELSE [job |-> j2, files |-> f2]

cleanup_escalates(jb, files, rm_in, rm_out) ==
    LET j0 == [jb EXCEPT !.calls = Append(@, "cleanup"), !.pc = "done"]
        has_in == ~IsNone(jb.input_path) /\ IsFile(files, Val(jb.input_path))
        j1 == IF has_in THEN [j0 EXCEPT !.rm = Append(@, Val(jb.input_path))]
              ELSE j0
        f1 == IF has_in /\ rm_in THEN RemoveFile(files, Val(jb.input_path))
              ELSE files
        has_out == /\ ~IsNone(jb.printable_path)
                   /\ jb.printable_path # jb.input_path
                   /\ IsFile(f1, Val(jb.printable_path))
        j2 == IF has_out THEN [j1 EXCEPT !.rm = Append(@, Val(jb.printable_path))]
              ELSE j1
        f2 == IF has_out /\ rm_out THEN RemoveFile(f1, Val(jb.printable_path))
              ELSE f1
    IN  IF has_in /\ ~rm_in
        THEN [job |-> [j1 EXCEPT !.err = "OSError"], files |-> f1]
        ELSE IF has_out /\ ~rm_out
        THEN [job |-> [j2 EXCEPT !.err = "OSError"], files |-> f2]
        ELSE [job |-> j2, files |-> f2]

cleanup(jb, files, rm_in, rm_out) ==
    LET j0 == [jb EXCEPT !.calls = Append(@, "cleanup"), !.pc = "done"]
        has_in == ~IsNone(jb.input_path) /\ IsFile(files, Val(jb.input_path))
        j1 == IF has_in THEN [j0 EXCEPT !.rm = Append(@, Val(jb.input_path))]
              ELSE j0
        f1 == IF has_in /\ rm_in THEN RemoveFile(files, Val(jb.input_path))
              ELSE files
        has_out == /\ ~IsNone(jb.printable_path)
                   /\ jb.printable_path # jb.input_path
                   /\ IsFile(f1, Val(jb.printable_path))
        j2 == IF has_out THEN [j1 EXCEPT !.rm = Append(@, Val(jb.printable_path))]
              ELSE j1
        f2 == IF has_out /\ rm_out THEN RemoveFile(f1, Val(jb.printable_path))
              ELSE f1
    IN  IF has_in /\ ~rm_in
        THEN [job |-> j1, files |-> f1]
        ELSE [job |-> j2, files |-> f2]

Cleanup(j) ==
    /\ ~LoopBlocked
    /\ job[j].pc = "cleanup"
    /\ \E rm_in \in BOOLEAN, rm_out \in BOOLEAN :
          LET r == cleanup(job[j], fs, rm_in, rm_out)
          IN  /\ job' = [job EXCEPT ![j] = r.job]
              /\ fs' = r.files
    /\ UNCHANGED << config, updates, ext_removed >>

(***************************************************************************)
(* PrintJob.get_status with get_printing_queue.  `outcome`: "error"        *)
(* (CommandError), "empty" (stdout is ""), "listing".                      *)
(***************************************************************************)
QueueOutcomes == {"error", "empty", "listing"}

\* run_cmd(["lpstat", "-o"]).stdout
QueueStdout(outcome) == IF outcome = "listing" THEN <<"P-1 user 1024">> ELSE <<>>

get_status_not_none(jb, outcome) ==
    LET j0 == [jb EXCEPT !.calls = Append(@, "get_status"),
                         !.cmds = Append(@, QueueCmd), !.queue = outcome,
                         !.pc = "done"]
    IN  IF outcome = "error"
        THEN [j0 EXCEPT !.msgs = Append(@, "status_failed"),
                        !.texts = Append(@, Plain("status_failed"))]
        ELSE [j0 EXCEPT !.msgs = Append(@, "print_queue"),
                        !.texts = Append(@, Format("print_queue",
                                         [queue |-> QueueStdout(outcome)]))]

get_status(jb, outcome) ==
    LET j0 == [jb EXCEPT !.calls = Append(@, "get_status"),
                         !.cmds = Append(@, QueueCmd), !.queue = outcome,
                         !.pc = "done"]
    IN  IF outcome = "error"
        THEN [j0 EXCEPT !.msgs = Append(@, "status_failed"),
                        !.texts = Append(@, Plain("status_failed"))]
        ELSE IF Len(QueueStdout(outcome)) = 0
        THEN [j0 EXCEPT !.msgs = Append(@, "empty_queue"),
                        !.texts = Append(@, Plain("empty_queue"))]
        ELSE [j0 EXCEPT !.msgs = Append(@, "print_queue"),
                        !.texts = Append(@, Format("print_queue",
                                         [queue |-> QueueStdout(outcome)]))]

GetStatus(j) ==
    /\ ~LoopBlocked
    /\ job[j].pc = "status"
    /\ \E outcome \in QueueOutcomes :
          job' = [job EXCEPT ![j] = get_status(@, outcome)]
    /\ UNCHANGED << config, fs, updates, ext_removed >>

\* PrintJob.start
Start(j) ==
    /\ ~LoopBlocked
    /\ job[j].pc = "start"
    /\ job' = [job EXCEPT ![j] = [@ EXCEPT !.calls = Append(@, "start"),
                                           !.msgs = Append(@, "start"),
                                           !.texts = Append(@, Plain("start")),
                                           !.pc = "done"]]
    /\ UNCHANGED << config, fs, updates, ext_removed >>

(***************************************************************************)
(* A command that never returns (subprocess.run is given no timeout): the  *)
(* converter for a document of an office type, lp for a job with a         *)
(* printable path, lpstat for a status query.  The step is the handler up  *)
(* to the call.                                                            *)
(***************************************************************************)
CommandHangs(j) ==
    /\ ~LoopBlocked
    /\ \/ /\ job[j].pc = "prepare"
          /\ IsFile(fs, Val(job[j].input_path))
          /\ fs[Val(job[j].input_path)] \in DocumentSigs
          /\ job' = [job EXCEPT ![j] =
                [@ EXCEPT !.msgs = Append(@, "preparing_file"),
                          !.texts = Append(@, Plain("preparing_file")),
                          !.cmds = Append(@, ConvertCmd(Val(job[j].input_path))),
                          !.cls = "ConvertibleDocument", !.tool = "hang",
                          !.pc = "hung"]]
       \/ /\ job[j].pc = "send"
          /\ ~IsNone(job[j].printable_path)
          /\ job' = [job EXCEPT ![j] =
                [@ EXCEPT !.calls = Append(@, "send_to_printer"),
                          !.cmds = Append(@, PrintCmd(Val(job[j].printable_path),
                                                      bot_data.printer_name)),
                          !.lp = "hang", !.pc = "hung"]]
       \/ /\ job[j].pc = "status"
          /\ job' = [job EXCEPT ![j] =
                [@ EXCEPT !.calls = Append(@, "get_status"),
                          !.cmds = Append(@, QueueCmd), !.queue = "hang",
                          !.pc = "hung"]]
    /\ UNCHANGED << config, fs, updates, ext_removed >>

\* Another process removes a file under /tmp (the case process_doc's
\* FileNotFoundError clause is written for).
ExternalRemove ==
    /\ ext_removed < MaxExternalRemovals
    /\ \E p \in DOMAIN fs : fs' = RemoveFile(fs, p)
    /\ ext_removed' = ext_removed + 1
    /\ UNCHANGED << config, job, updates >>

(***************************************************************************)
(* Specifications.                                                         *)
(***************************************************************************)
EmptyFs == [q \in {} |-> "none"]

\* What Settings gives build_app: ALLOWED_USERS unset (None) or a non-empty
\* tuple of ints (PrintContext._validate_tg_users).
SettingsPolicies == { PyNone, PyTuple(<<PyInt(1)>>) }

\* bot_data["printer_name"]
PrinterNames == { None, Some(<<>>), Some(<<"P">>) }

\* PAGE_CONFIRM_LIMIT in the environment.
PageLimitEnv == { None, Some(<<"2", "5">>), Some(<<"x">>) }

(***************************************************************************)
(* main().  proc.phase: "start" (before Settings()), "settings" (Settings  *)
(* returned), "exited" (SystemExit), "crashed" (an exception left main),   *)
(* "polling" (run_polling serves updates).  environ is the environment     *)
(* Settings() read and settings the object it returned, exc the exception  *)
(* that ended the process, built whether the Application was built.        *)
(***************************************************************************)
TokenEnv == { None, Some(<<>>), Some(<<"T">>) }

UsersEnv ==
    { None, Some(<<>>), Some(<<"1">>), Some(<<"1", ",", "2">>),
      Some(<<"1", ",", "x">>), Some(<<" ", ",", " ">>), Some(<<"x">>),
      Some(<<"1", ",", " ", "-", "2">>) }

DebugEnv == { None, Some(<<"Y">>), Some(<<"n", "o">>) }

StartingProc ==
    [ phase |-> "start", environ |-> None, settings |-> None, exc |-> "None",
      exit_code |-> None, built |-> FALSE ]

\* The process once run_polling serves updates; the handlers read bot_data.
Serving ==
    [ phase |-> "polling", environ |-> None, settings |-> None, exc |-> "None",
      exit_code |-> None, built |-> TRUE ]

\* main, lines 12-16: Settings() and the except clause
MainSettings ==
    /\ proc.phase = "start"
    /\ \E env \in [ TELEGRAM_TOKEN : TokenEnv, ALLOWED_USERS : UsersEnv,
                    DEBUG : DebugEnv, PRINTER_NAME : PrinterNames,
                    PAGE_CONFIRM_LIMIT : PageLimitEnv ] :
          LET s == Settings(env)
          IN  proc' = IF s.exc # "None"
                      THEN [proc EXCEPT !.phase = "exited", !.environ = Some(env),
                                        !.exc = s.exc, !.exit_code = Some(1)]
                      ELSE [proc EXCEPT !.phase = "settings",
                                        !.environ = Some(env), !.settings = s.ret]
    /\ UNCHANGED << bot_data, page_confirm_limit, asserts_on, concurrent_updates,
                    fs, job, updates, ext_removed >>

\* main, line 19, with build_app: the Application is built, and then
\* build_app reads settings.allowed_users, an attribute Settings does not
\* have (it is print_context's).
MainBuildApp ==
    /\ proc.phase = "settings"
    /\ proc' = [proc EXCEPT !.phase = "crashed", !.built = TRUE,
                            !.exc = "AttributeError"]
    /\ UNCHANGED << bot_data, page_confirm_limit, asserts_on, concurrent_updates,
                    fs, job, updates, ext_removed >>

\* The configuration of a serving process: the specifications below start
\* where build_app has filled bot_data as it is written to and run_polling
\* takes updates.
InitConfig(policies, limits) ==
    /\ bot_data \in [allowed_users : policies, printer_name : PrinterNames]
    /\ page_confirm_limit \in
          { validate_int(e, DefaultPageConfirmLimit) : e \in limits }
    /\ asserts_on \in BOOLEAN
    /\ concurrent_updates = FALSE
    /\ proc = Serving

\* After build_app: no update handled yet, /tmp holds none of the bot's files.
Init ==
    /\ InitConfig(SettingsPolicies, {None})
    /\ fs = EmptyFs
    /\ job = [j \in Jobs |-> BlankJob]
    /\ updates = 0
    /\ ext_removed = 0

Next ==
    \/ \E j \in Jobs : Receive(j)
    \/ \E j \in Jobs : Authorize(j)
    \/ \E j \in Jobs : ProcessDocDownload(j)
    \/ \E j \in Jobs : ProcessDocPrepare(j)
    \/ \E j \in Jobs : ConfirmationGate(j)
    \/ \E j \in Jobs : ProcessPhoto(j)
    \/ \E j \in Jobs : SendToPrinter(j)
    \/ \E j \in Jobs : Cleanup(j)
    \/ \E j \in Jobs : GetStatus(j)
    \/ \E j \in Jobs : Start(j)
    \/ \E j \in Jobs : CommandHangs(j)
    \/ ExternalRemove

Spec == Init /\ [][Next]_vars

(***************************************************************************)
(* The authorization gate on every value bot_data["allowed_users"] can     *)
(* hold: is_user_valid reads it from a dict and tests its type itself.     *)
(***************************************************************************)
AnyPolicies ==
    SettingsPolicies \cup
    { PyTuple(<<>>), PyTuple(<<PyInt(1), PyInt(2)>>), PyTuple(<<PyStr(1)>>),
      PyInt(0), PyInt(7), PyStr(0), PyStr(3) }

InitPolicy ==
    /\ InitConfig(AnyPolicies, {None})
    /\ fs = EmptyFs
    /\ job = [j \in Jobs |-> BlankJob]
    /\ updates = 0
    /\ ext_removed = 0

SpecPolicy == InitPolicy /\ [][Next]_vars

(***************************************************************************)
(* handle_doc from its page-count gate on (lines 251-255), for every value *)
(* the fields process_doc assigns are declared to hold (PrintJob.__init__: *)
(* printable_path: str | None, page_count: int | None): slot 1 holds a     *)
(* document job whose process_doc has returned with a print-ready path     *)
(* and a page count.                                                       *)
(***************************************************************************)
GatePageCounts ==
    { PyNone, PyInt(0), PyInt(1), PyInt(19), PyInt(20), PyInt(21), PyInt(25),
      PyInt(26) }

PreparedJob(sig, page_count) ==
    LET name == <<"a", ".", "d">>
        path == DocInputPath(name)
        converted == sig \in DocumentSigs
    IN  [ NewJob("doc", 1, name, sig, <<>>) EXCEPT
            !.pc = "gate", !.auth = "True",
            !.file_name = Some(name), !.input_path = Some(path),
            !.printable_path = IF converted THEN Some(PdfPath(path))
                               ELSE Some(path),
            !.page_count = page_count,
            !.msgs = <<"downloading_file", "preparing_file">>,
            !.texts = << Format("downloading_file", [filename |-> name]),
                         Plain("preparing_file") >>,
            !.cmds = IF converted THEN <<ConvertCmd(path)>> ELSE <<>>,
            !.calls = <<"is_user_valid", "process_doc">>,
            !.downloaded = TRUE,
            !.cls = IF converted THEN "ConvertibleDocument" ELSE "PrintableAsIs",
            !.conv = IF converted THEN "ok" ELSE "none" ]

PreparedFs(sig) ==
    LET path == DocInputPath(<<"a", ".", "d">>)
        f0 == WriteFile(EmptyFs, path, sig)
    IN  IF sig \in DocumentSigs THEN WriteFile(f0, PdfPath(path), "pdf") ELSE f0

InitGate ==
    /\ InitConfig({PyNone}, PageLimitEnv)
    /\ \E sig \in {"pdf", "docx"}, pages \in GatePageCounts :
          /\ job = [j \in Jobs |-> IF j = 1 THEN PreparedJob(sig, pages)
                                   ELSE BlankJob]
          /\ fs = PreparedFs(sig)
    /\ updates = 1
    /\ ext_removed = 0

SpecGate == InitGate /\ [][Next]_vars

(***************************************************************************)
(* Observations the properties are stated with.                            *)
(***************************************************************************)
Has(seq, x) == \E i \in 1..Len(seq) : seq[i] = x

\* Job j entered the PrintJob method m.
Called(j, m) == Has(job[j].calls, m)

\* Job j sent the notification with key k.
Sent(j, k) == Has(job[j].msgs, k)

\* Job j ran the submit command.
RanLp(j) == \E i \in 1..Len(job[j].cmds) : job[j].cmds[i][1] = Lp

\* Job j ran the converter.
RanConverter(j) == \E i \in 1..Len(job[j].cmds) : job[j].cmds[i][1] = Soffice

\* The handler of job j has returned or was left by an exception.
Ended(j) == job[j].pc = "done"

\* allowed_users is a tuple of ints.
IsIdentitySet(v) ==
    v.t = "tuple" /\ \A i \in 1..Len(v.items) : v.items[i].t = "int"

IsMember(user_id, v) == \E i \in 1..Len(v.items) : v.items[i] = PyInt(user_id)

\* is_user_valid has run for job j.
AuthDecided(j) == job[j].auth # "none"

(***************************************************************************)
(* C1 (not true of the code).  Every print job that downloaded a file has  *)
(* run cleanup by the time its handler ends, whatever the outcome.         *)
(***************************************************************************)
C1_CleanupAfterEveryDownload ==
    \A j \in Jobs :
        (Ended(j) /\ job[j].downloaded) => Called(j, "cleanup")

(***************************************************************************)
(* C2.  A principal that is not a member of a configured non-empty policy  *)
(* is denied as the first step of every entry point: the request ends      *)
(* there, having sent the denial message and nothing else, downloaded      *)
(* nothing, run no command and removed nothing.                            *)
(***************************************************************************)
NotAuthorized(j) ==
    /\ AuthDecided(j)
    /\ IsIdentitySet(bot_data.allowed_users)
    /\ bot_data.allowed_users.n > 0
    /\ ~IsMember(job[j].user, bot_data.allowed_users)

C2_DeniedFirst ==
    \A j \in Jobs :
        NotAuthorized(j) =>
            /\ Ended(j)
            /\ job[j].auth = "False"
            /\ job[j].msgs = <<"no_auth">>
            /\ job[j].calls = <<"is_user_valid">>
            /\ job[j].cmds = <<>>
            /\ job[j].rm = <<>>
            /\ ~job[j].downloaded
            /\ IsNone(job[j].input_path)
            /\ job[j].err = "None"

\* Each of the four entry points has denied a non-member; here the document one.
C2_Witness ==
    \E j \in Jobs : NotAuthorized(j) /\ Ended(j) /\ job[j].kind = "doc"

(***************************************************************************)
(* C3 as stated (not true of the code).  is_user_valid allows everyone     *)
(* when the policy is unset, and with a valid set of identities allows     *)
(* exactly the members.                                                    *)
(***************************************************************************)
C3_Original ==
    \A j \in Jobs :
        AuthDecided(j) =>
            /\ bot_data.allowed_users = PyNone => job[j].auth = "True"
            /\ IsIdentitySet(bot_data.allowed_users) =>
                  (job[j].auth = "True"
                      <=> IsMember(job[j].user, bot_data.allowed_users))

(***************************************************************************)
(* C3 amended.  is_user_valid allows everyone when the policy is unset or  *)
(* an empty set, and with a non-empty set of identities allows exactly the *)
(* members (and denies the others with the denial message).                *)
(***************************************************************************)
C3_Amended ==
    \A j \in Jobs :
        AuthDecided(j) =>
            /\ bot_data.allowed_users = PyNone => job[j].auth = "True"
            /\ (IsIdentitySet(bot_data.allowed_users)
                    /\ bot_data.allowed_users.n = 0) => job[j].auth = "True"
            /\ (IsIdentitySet(bot_data.allowed_users)
                    /\ bot_data.allowed_users.n > 0) =>
                  /\ job[j].auth \in {"True", "False"}
                  /\ job[j].auth = "True"
                        <=> IsMember(job[j].user, bot_data.allowed_users)
                  /\ job[j].auth = "False" => job[j].msgs = <<"no_auth">>

\* The second of two identities is allowed.
C3_Witness ==
    \E j \in Jobs :
        /\ AuthDecided(j)
        /\ bot_data.allowed_users = PyTuple(<<PyInt(1), PyInt(2)>>)
        /\ job[j].user = 2
        /\ job[j].auth = "True"

(***************************************************************************)
(* C4 (not true of the code).  A policy that is present but is not a set   *)
(* of identities makes the gate deny: it neither allows nor raises.        *)
(***************************************************************************)
Malformed(v) == v.t # "NoneType" /\ ~IsIdentitySet(v)

C4_MalformedPolicyDenies ==
    \A j \in Jobs :
        (AuthDecided(j) /\ Malformed(bot_data.allowed_users)) =>
            job[j].auth = "False"

(***************************************************************************)
(* C5.  A job runs the submit command only on its print-ready path: for a  *)
(* document, after prepare_for_printing found it printable as it is or     *)
(* converted it; for a photo, which is printed as downloaded, on the       *)
(* downloaded file.  No job runs it after its file was found unsupported,  *)
(* could not be converted, or was missing.                                 *)
(***************************************************************************)
PrintReady(j) ==
    \/ job[j].kind = "photo" /\ job[j].printable_path = job[j].input_path
    \/ job[j].kind = "doc" /\ job[j].cls = "PrintableAsIs"
    \/ job[j].kind = "doc" /\ job[j].cls = "ConvertibleDocument"
                           /\ job[j].conv = "ok"

C5_SubmitOnlyPrintReady ==
    \A j \in Jobs :
        RanLp(j) =>
            /\ PrintReady(j)
            /\ job[j].cls \notin {"Unsupported", "FileNotFound"}
            /\ job[j].conv # "failed"
            /\ ~IsNone(job[j].printable_path)
            /\ \A i \in 1..Len(job[j].cmds) :
                  job[j].cmds[i][1] = Lp =>
                      job[j].cmds[i][Len(job[j].cmds[i])]
                          = Val(job[j].printable_path)

\* A document found unsupported reached send_to_printer, which ran nothing.
C5_Witness ==
    \E j \in Jobs :
        /\ job[j].cls = "Unsupported"
        /\ Called(j, "send_to_printer")
        /\ Ended(j)
        /\ ~RanLp(j)

(***************************************************************************)
(* C6 (not true of the code).  A document classified unsupported gets the  *)
(* unsupported-type notification and then only cleanup: send_to_printer is *)
(* never entered and the handler ends without an exception.                *)
(***************************************************************************)
C6_UnsupportedGoesToCleanup ==
    \A j \in Jobs :
        (Ended(j) /\ job[j].cls = "Unsupported") =>
            /\ Sent(j, "unprintable")
            /\ ~Called(j, "send_to_printer")
            /\ Called(j, "cleanup")
            /\ job[j].err = "None"

(***************************************************************************)
(* C7 (not true of the code).  A failed conversion is reported with the    *)
(* generic failure notification, not the unsupported-type one; nothing is  *)
(* submitted and cleanup removes the input.                                *)
(***************************************************************************)
C7_ConversionFailureIsGeneric ==
    \A j \in Jobs :
        (Ended(j) /\ job[j].conv = "failed") =>
            /\ Sent(j, "failed")
            /\ ~Sent(j, "unprintable")
            /\ ~RanLp(j)
            /\ Called(j, "cleanup")

(***************************************************************************)
(* C8 (not true of the code).  A document job with a known page count p    *)
(* halts for confirmation exactly when p exceeds the configured limit      *)
(* (PAGE_CONFIRM_LIMIT, default 20); otherwise it goes on to submit.       *)
(***************************************************************************)
PastGate(j) ==
    /\ job[j].kind = "doc"
    /\ job[j].page_count.t = "int"
    /\ job[j].pc \in {"send", "cleanup", "done"}

C8_HaltsIffOverLimit ==
    \A j \in Jobs :
        PastGate(j) =>
            /\ Called(j, "request_print_confirmation")
                  <=> job[j].page_count.n > page_confirm_limit
            /\ job[j].page_count.n <= page_confirm_limit =>
                  (job[j].pc = "send" \/ Called(j, "send_to_printer"))

(***************************************************************************)
(* C9.  A job that halts for confirmation has sent the page-count          *)
(* notification as its last message, and its handler has ended: it entered *)
(* neither send_to_printer nor cleanup, ran no submit command and removed  *)
(* no file.                                                                *)
(***************************************************************************)
C9_HaltedJobStaysHalted ==
    \A j \in Jobs :
        Called(j, "request_print_confirmation") =>
            /\ Ended(j)
            /\ job[j].err = "None"
            /\ Len(job[j].msgs) > 0
            /\ job[j].msgs[Len(job[j].msgs)] = "page_count_warning"
            /\ ~Called(j, "send_to_printer")
            /\ ~Called(j, "cleanup")
            /\ ~RanLp(j)
            /\ job[j].rm = <<>>

\* A converted document of 25 pages halted; both its files are still there.
C9_Witness ==
    \E j \in Jobs :
        /\ Called(j, "request_print_confirmation")
        /\ job[j].page_count = PyInt(25)
        /\ job[j].printable_path # job[j].input_path
        /\ IsFile(fs, Val(job[j].input_path))
        /\ IsFile(fs, Val(job[j].printable_path))

(***************************************************************************)
(* C10.  Once the submit command has ended: if it could not be run or      *)
(* exited non-zero the job sent the submission-failed notification and not *)
(* the success one; if it exited zero it sent the success notification;    *)
(* and in both cases the next and last step of the job is cleanup.         *)
(***************************************************************************)
C10_SubmitOutcomeReported ==
    \A j \in Jobs :
        job[j].lp \in SubmitOutcomes =>
            /\ job[j].lp = "error" =>
                  Sent(j, "printing_failed") /\ ~Sent(j, "sent_to_printer")
            /\ job[j].lp = "ok" =>
                  Sent(j, "sent_to_printer") /\ ~Sent(j, "printing_failed")
            /\ job[j].err = "None"
            /\ \/ job[j].pc = "cleanup"
                  /\ job[j].calls[Len(job[j].calls)] = "send_to_printer"
               \/ Ended(j)
                  /\ job[j].calls[Len(job[j].calls)] = "cleanup"
                  /\ job[j].calls[Len(job[j].calls) - 1] = "send_to_printer"

\* A failed submission was reported and cleanup has run.
C10_Witness ==
    \E j \in Jobs :
        /\ job[j].lp = "error"
        /\ Ended(j)
        /\ Called(j, "cleanup")

(***************************************************************************)
(* C11.  Every submit command a job ran is, when a printer name is given   *)
(* (a non-empty name), lp, the printer flag, the name and then the file    *)
(* path as the last argument; with no name (None or "") it is lp and the   *)
(* file path, with no printer flag.                                        *)
(***************************************************************************)
PrinterGiven ==
    ~IsNone(bot_data.printer_name) /\ Len(Val(bot_data.printer_name)) > 0

C11_SubmitArgv ==
    \A j \in Jobs : \A i \in 1..Len(job[j].cmds) :
        LET cmd == job[j].cmds[i]
        IN  cmd[1] = Lp =>
              /\ cmd[Len(cmd)] = Val(job[j].printable_path)
              /\ PrinterGiven =>
                    /\ Len(cmd) = 4
                    /\ cmd[Len(cmd) - 2] = <<"-", "d">>
                    /\ cmd[Len(cmd) - 1] = Val(bot_data.printer_name)
              /\ ~PrinterGiven =>
                    /\ Len(cmd) = 2
                    /\ \A k \in 1..Len(cmd) : cmd[k] # <<"-", "d">>

\* A job has run lp for the printer P.
C11_Witness ==
    \E j \in Jobs :
        /\ RanLp(j)
        /\ bot_data.printer_name = Some(<<"P">>)
        /\ job[j].cmds[Len(job[j].cmds)]
              = <<Lp, <<"-", "d">>, <<"P">>, Val(job[j].printable_path)>>

(***************************************************************************)
(* The handlers of two updates interleaved, as when the Application runs   *)
(* updates concurrently: a coroutine gives way at its awaits, and every    *)
(* action above ends at one (download_to_drive, reply_text), so each       *)
(* interleaving of the actions is one of the coroutines.  Settings as      *)
(* loaded with ALLOWED_USERS and PRINTER_NAME unset.                       *)
(***************************************************************************)
InitConcurrent ==
    /\ bot_data = [allowed_users |-> PyNone, printer_name |-> None]
    /\ page_confirm_limit = validate_int(None, DefaultPageConfirmLimit)
    /\ asserts_on \in BOOLEAN
    /\ concurrent_updates = TRUE
    /\ proc = Serving
    /\ fs = EmptyFs
    /\ job = [j \in Jobs |-> BlankJob]
    /\ updates = 0
    /\ ext_removed = 0

SpecConcurrent == InitConcurrent /\ [][Next]_vars

\* Job j is between its dispatch and the end of its handler.
Running(j) == ~Finished(j)

\* The local files of job j.
Paths(j) ==
    {Val(job[j].input_path) : x \in {1} \cap {Len(job[j].input_path)}} \cup
    {Val(job[j].printable_path) : x \in {1} \cap {Len(job[j].printable_path)}}

(***************************************************************************)
(* C12.  While job k is running and has downloaded its file, no step of    *)
(* another job j downloads to one of k's paths, and none removes a file    *)
(* at one of k's paths.                                                    *)
(***************************************************************************)
C12_NoInterference ==
    [][ \A j \in Jobs, k \in Jobs :
          (j # k /\ Running(k) /\ job[k].downloaded /\ job'[j] # job[j]) =>
             /\ (~job[j].downloaded /\ job'[j].downloaded)
                   => Val(job'[j].input_path) \notin Paths(k)
             /\ \A p \in Paths(k) : IsFile(fs, p) => IsFile(fs', p) ]_vars

(***************************************************************************)
(* C13.  Every notification a job sent has a key of the message table and  *)
(* shows nothing taken from an exception: no text has an exception field,  *)
(* and the failure notification shows the template alone, whatever the     *)
(* text of the exception that caused it.                                   *)
(***************************************************************************)
Vocabulary == DOMAIN MESSAGES

C14_StatusReply ==
    \A j \in Jobs :
        (job[j].kind = "status" /\ job[j].auth = "True" /\ Ended(j)) =>
            /\ job[j].queue \in QueueOutcomes
            /\ job[j].cmds = <<QueueCmd>>
            /\ job[j].queue = "error" => job[j].msgs = <<"status_failed">>
            /\ (job[j].queue # "error" /\ Len(QueueStdout(job[j].queue)) = 0)
                  => job[j].msgs = <<"empty_queue">>
            /\ (job[j].queue # "error" /\ Len(QueueStdout(job[j].queue)) > 0)
                  => /\ job[j].msgs = <<"print_queue">>
                     /\ job[j].texts[1].shown.queue = QueueStdout(job[j].queue)

\* An authorized status query found the queue empty and said so.
C14_Witness ==
    \E j \in Jobs :
        /\ job[j].kind = "status" /\ job[j].auth = "True" /\ Ended(j)
        /\ job[j].queue = "empty"
        /\ job[j].msgs = <<"empty_queue">>

(***************************************************************************)
(* The process from its start: no Settings, no Application, no update.     *)
(***************************************************************************)
InitStartup ==
    /\ bot_data = [allowed_users |-> PyNone, printer_name |-> None]
    /\ page_confirm_limit = DefaultPageConfirmLimit
    /\ asserts_on \in BOOLEAN
    /\ concurrent_updates = FALSE
    /\ proc = StartingProc
    /\ fs = EmptyFs
    /\ job = [j \in Jobs |-> BlankJob]
    /\ updates = 0
    /\ ext_removed = 0

NextStartup == MainSettings \/ MainBuildApp

SpecStartup == InitStartup /\ [][NextStartup]_vars

\* TELEGRAM_TOKEN is unset or empty.
MissingCredential(env) ==
    IsNone(env.TELEGRAM_TOKEN) \/ Val(env.TELEGRAM_TOKEN) = <<>>

\* An element of ALLOWED_USERS is not an integer.
MalformedPrincipals(env) ==
    /\ ~IsNone(env.ALLOWED_USERS)
    /\ LET split == SplitComma(Val(env.ALLOWED_USERS))
       IN  \E i \in 1..Len(split) :
              Len(Strip(split[i])) > 0 /\ ~IsIntLiteral(Strip(split[i]))

(***************************************************************************)
(* C15.  Once the environment has been read, a missing credential or a     *)
(* non-integer principal means the process has exited with status 1, the   *)
(* Application was never built and no update was taken.                    *)
(***************************************************************************)
C15_ConfigErrorIsFatal ==
    (/\ ~IsNone(proc.environ)
     /\ MissingCredential(Val(proc.environ))
           \/ MalformedPrincipals(Val(proc.environ))) =>
        /\ proc.phase = "exited"
        /\ proc.exit_code = Some(1)
        /\ ~proc.built
        /\ updates = 0
        /\ \A j \in Jobs : job[j] = BlankJob

\* The process exited on a non-integer principal, the credential being set.
C15_Witness ==
    /\ proc.phase = "exited"
    /\ proc.exc = "IncorrectUserIDError"
    /\ ~MissingCredential(Val(proc.environ))
    /\ MalformedPrincipals(Val(proc.environ))

(***************************************************************************)
(* C16.  Each step in which a job's document is handed to _convert_to_pdf  *)
(* and the call ends:                                                      *)
(* the conversion succeeds only if the tool exited zero and the expected   *)
(* .pdf exists afterwards, having run the converter; it fails when no tool *)
(* is found, and then no command was run, when the tool cannot be run or   *)
(* exits non-zero, and when it exits zero and the .pdf is absent.          *)
(***************************************************************************)
C16_ConversionResult ==
    [][ \A j \in Jobs :
          (/\ job[j].pc = "prepare"
           /\ job'[j].pc \notin {"prepare", "hung"}
           /\ job'[j].cls = "ConvertibleDocument") =>
             LET pdf == PdfPath(Val(job[j].input_path))
                 exit0 == job'[j].tool \in {"exit0_output", "exit0_no_output"}
                 ran == Len(job'[j].cmds) > Len(job[j].cmds)
             IN  /\ job'[j].conv \in {"ok", "failed"}
                 /\ job'[j].conv = "ok" => (exit0 /\ IsFile(fs', pdf) /\ ran)
                 /\ job'[j].tool = "no_tool" => (job'[j].conv = "failed" /\ ~ran)
                 /\ job'[j].tool = "cmd_error" => job'[j].conv = "failed"
                 /\ (exit0 /\ ~IsFile(fs', pdf)) => job'[j].conv = "failed" ]_vars

\* The converter exited zero, wrote nothing, and the conversion failed.
C16_Witness ==
    \E j \in Jobs :
        /\ job[j].tool = "exit0_no_output"
        /\ RanConverter(j)
        /\ job[j].conv = "failed"
        /\ ~IsFile(fs, PdfPath(Val(job[j].input_path)))

(***************************************************************************)
(* C17.  Every cleanup step, those in which a removal fails included,      *)
(* returns normally and sends nothing: the job ends with no exception and  *)
(* with the notifications it had sent before.                              *)
(***************************************************************************)
C17_CleanupNeverEscalates ==
    [][ \A j \in Jobs :
          (job[j].pc = "cleanup" /\ job'[j].pc # "cleanup") =>
             /\ job'[j].pc = "done"
             /\ job'[j].err = "None"
             /\ job'[j].msgs = job[j].msgs
             /\ job'[j].texts = job[j].texts ]_vars

\* os.remove failed on a file of the job (it was attempted and the file is
\* still there), and the job ended with its success notification last.
C17_Witness ==
    \E j \in Jobs :
        /\ Ended(j) /\ Called(j, "cleanup")
        /\ \E i \in 1..Len(job[j].rm) : IsFile(fs, job[j].rm[i])
        /\ job[j].err = "None"
        /\ job[j].msgs[Len(job[j].msgs)] = "sent_to_printer"

(***************************************************************************)
(* C18.  A cleanup step of a job whose converted file is distinct from its *)
(* input, both on disk, calls os.remove on each of the two, whether or not *)
(* the removal of the input succeeds.                                      *)
(***************************************************************************)
C18_BothRemovalsAttempted ==
    [][ \A j \in Jobs :
          (/\ job[j].pc = "cleanup" /\ job'[j].pc # "cleanup"
           /\ ~IsNone(job[j].input_path) /\ ~IsNone(job[j].printable_path)
           /\ job[j].printable_path # job[j].input_path
           /\ IsFile(fs, Val(job[j].input_path))
           /\ IsFile(fs, Val(job[j].printable_path))) =>
             /\ Has(job'[j].rm, Val(job[j].input_path))
             /\ Has(job'[j].rm, Val(job[j].printable_path)) ]_vars

(***************************************************************************)
(* C19.  For a job whose cleanup has run and whose files are gone, a       *)
(* second cleanup, whatever os.remove would do, returns with no exception, *)
(* calls os.remove on nothing and leaves the file system as it is.         *)
(***************************************************************************)
ArtifactsGone(j) == \A p \in Paths(j) : ~IsFile(fs, p)

C19_CleanupIdempotent ==
    \A j \in Jobs :
        (Ended(j) /\ Called(j, "cleanup") /\ ArtifactsGone(j)) =>
            \A rm_in \in BOOLEAN, rm_out \in BOOLEAN :
                LET again == cleanup(job[j], fs, rm_in, rm_out)
                IN  /\ again.files = fs
                    /\ again.job.err = "None"
                    /\ again.job.rm = job[j].rm
                    /\ again.job.msgs = job[j].msgs

\* A document job's cleanup removed its input and its converted file.
C19_Witness ==
    \E j \in Jobs :
        /\ Ended(j) /\ Called(j, "cleanup") /\ ArtifactsGone(j)
        /\ job[j].printable_path # job[j].input_path
        /\ job[j].rm = <<Val(job[j].input_path), Val(job[j].printable_path)>>

(***************************************************************************)
(* C20.  A document job that ended after a file-acquisition error (the     *)
(* transport failed to deliver the file, or the downloaded file was gone   *)
(* at preparation time) sent the generic failure notification and not the  *)
(* unsupported-type one, and ran neither the converter nor lp.             *)
(***************************************************************************)
DownloadFailed(j) ==
    /\ job[j].kind = "doc" /\ Called(j, "process_doc")
    /\ ~job[j].downloaded
    /\ job[j].err = "TelegramError"

MissingAtPreparation(j) == job[j].cls = "FileNotFound"

C20_AcquisitionErrorReported ==
    \A j \in Jobs :
        (Ended(j) /\ (DownloadFailed(j) \/ MissingAtPreparation(j))) =>
            /\ Sent(j, "failed")
            /\ ~Sent(j, "unprintable")
            /\ ~RanConverter(j)
            /\ ~RanLp(j)

(***************************************************************************)
(* The program with its scheduling: the event loop resumes a coroutine     *)
(* that can go on, and the Application takes an update that was delivered  *)
(* when it may dispatch one.  A command need not return.                   *)
(***************************************************************************)
JobStep(j) ==
    \/ Authorize(j)
    \/ ProcessDocDownload(j)
    \/ ProcessDocPrepare(j)
    \/ ConfirmationGate(j)
    \/ ProcessPhoto(j)
    \/ SendToPrinter(j)
    \/ Cleanup(j)
    \/ GetStatus(j)
    \/ Start(j)

Fairness ==
    /\ \A j \in Jobs : WF_vars(JobStep(j))
    /\ WF_vars(\E j \in Jobs : Receive(j))

SpecLive == Init /\ [][Next]_vars /\ Fairness

\* A command of a job other than k hangs.
OtherHangs(k) == \E j \in Jobs : j # k /\ job[j].pc = "hung"

(***************************************************************************)
(* C21.  While the command of another job hangs, a job that is running     *)
(* goes on to its end, and a free slot with an update still to come takes  *)
(* an update (or the update is taken by another slot).                     *)
(***************************************************************************)
C21_HangBlocksOnlyIssuer ==
    \A k \in Jobs :
        /\ (OtherHangs(k) /\ Running(k) /\ job[k].pc # "hung")
              ~> (Ended(k) \/ job[k].pc = "hung")
        /\ (OtherHangs(k) /\ Finished(k) /\ updates < MaxUpdates)
              ~> (~Finished(k) \/ updates = MaxUpdates)

(***************************************************************************)
(* C22.  A photo job is never classified, converted or held at the         *)
(* confirmation gate; once its file is downloaded its printable path is    *)
(* its input path and its page count is 1, and what follows the download   *)
(* is send_to_printer and then cleanup, nothing else.                      *)
(***************************************************************************)
PhotoCalls ==
    << "is_user_valid", "process_photo", "send_to_printer", "cleanup" >>

C22_PhotoSkipsPreparation ==
    \A j \in Jobs :
        job[j].kind = "photo" =>
            /\ job[j].cls = "none" /\ job[j].conv = "none"
            /\ job[j].tool = "none"
            /\ ~RanConverter(j)
            /\ ~Called(j, "process_doc")
            /\ ~Called(j, "request_print_confirmation")
            /\ ~Sent(j, "page_count_warning")
            /\ job[j].pc \notin {"download", "prepare", "gate"}
            /\ job[j].downloaded =>
                  /\ ~IsNone(job[j].input_path)
                  /\ job[j].printable_path = job[j].input_path
                  /\ job[j].page_count = PyInt(1)
                  /\ \E n \in 2..4 :
                        /\ job[j].calls = SubSeq(PhotoCalls, 1, n)
                        /\ n = 2 => job[j].pc = "send"
                        /\ n = 3 => job[j].pc \in {"cleanup", "hung"}
                        /\ n = 4 => job[j].pc = "done"

\* A photo was downloaded, submitted and cleaned up.
C22_Witness ==
    \E j \in Jobs :
        /\ job[j].kind = "photo" /\ job[j].downloaded /\ Ended(j)
        /\ job[j].calls = PhotoCalls
        /\ RanLp(j)

(***************************************************************************)
(* Where a path leads: its components, with "" and "." dropped and ".."    *)
(* leaving the directory reached so far (the root's parent is the root).   *)
(***************************************************************************)
RECURSIVE SplitSlash(_)
SplitSlash(p) ==
    IF \A i \in 1..Len(p) : p[i] # "/" THEN <<p>>
    ELSE LET k == CHOOSE i \in 1..Len(p) :
                      p[i] = "/" /\ \A m \in 1..(i - 1) : p[m] # "/"
         IN  <<SubSeq(p, 1, k - 1)>> \o SplitSlash(SubSeq(p, k + 1, Len(p)))

RECURSIVE Resolve(_, _)
Resolve(components, reached) ==
    IF Len(components) = 0 THEN reached
    ELSE LET c == Head(components)
         IN  IF c = <<>> \/ c = <<".">> THEN Resolve(Tail(components), reached)
             ELSE IF c = <<".", ".">>
             THEN Resolve(Tail(components),
                          IF Len(reached) = 0 THEN reached
                          ELSE SubSeq(reached, 1, Len(reached) - 1))
             ELSE Resolve(Tail(components), Append(reached, c))

\* The absolute path p names a file inside /tmp.
UnderTmp(p) ==
    LET reached == Resolve(SplitSlash(p), <<>>)
    IN  Len(reached) >= 2 /\ reached[1] = <<"t", "m", "p">>

(***************************************************************************)
(* C23.  The path a job downloads to, whatever the declared name or the    *)
(* transport identifier it is built from, names a file inside /tmp.        *)
(***************************************************************************)
C23_DownloadsUnderTmp ==
    \A j \in Jobs :
        ~IsNone(job[j].input_path) => UnderTmp(Val(job[j].input_path))

(***************************************************************************)
(* C24.  Whatever its declared name, a document that was classified got    *)
(* the class of its content's signature: PrintableAsIs for a PDF (and then *)
(* the converter was not run), ConvertibleDocument for an office           *)
(* document, Unsupported for an unrecognized signature.                    *)
(***************************************************************************)
Classified(j) ==
    /\ job[j].kind = "doc"
    /\ job[j].cls \in {"PrintableAsIs", "ConvertibleDocument", "Unsupported"}

C24_ClassBySignatureOnly ==
    \A j \in Jobs :
        Classified(j) =>
            /\ job[j].sig = "pdf" =>
                  job[j].cls = "PrintableAsIs" /\ ~RanConverter(j)
            /\ job[j].sig = "docx" => job[j].cls = "ConvertibleDocument"
            /\ job[j].sig = "unknown" =>
                  job[j].cls = "Unsupported" /\ ~RanConverter(j)

\* A PDF declared under a name whose extension is not .pdf was classified
\* PrintableAsIs.
C24_Witness ==
    \E j \in Jobs :
        /\ Classified(j)
        /\ job[j].sig = "pdf"
        /\ job[j].name = <<"a", ".", "d">>
        /\ job[j].cls = "PrintableAsIs"
        /\ ~RanConverter(j)

(***************************************************************************)
(* C25.  Among the notifications a job sent, at most one is an outcome     *)
(* notification (unsupported type, generic failure, confirmation           *)
(* required, submission failed, submission succeeded); so none sent the    *)
(* success notification together with a rejection or a failure.            *)
(***************************************************************************)
OutcomeKeys ==
    { "unprintable", "failed", "page_count_warning", "printing_failed",
      "sent_to_printer" }

Outcomes(j) == { i \in 1..Len(job[j].msgs) : job[j].msgs[i] \in OutcomeKeys }

C25_AtMostOneOutcome ==
    \A j \in Jobs :
        /\ Cardinality(Outcomes(j)) <= 1
        /\ Sent(j, "sent_to_printer") =>
              \A k \in OutcomeKeys \ {"sent_to_printer"} : ~Sent(j, k)

\* A document was rejected as unsupported, its handler went on into
\* send_to_printer, and the rejection is the one outcome it sent.
C25_Witness ==
    \E j \in Jobs :
        /\ Ended(j)
        /\ Sent(j, "unprintable")
        /\ Called(j, "send_to_printer")
        /\ Cardinality(Outcomes(j)) = 1

=============================================================================
